---- MODULE Spec2Model ----
(***************************************************************************)
(* Event-time normalisation and aggregation of the FlightReport dashboard: *)
(*   convert_time_string_to_datetime  (time_utils.py)                      *)
(*   handle_midnight_crossover        (time_utils.py)                      *)
(*   calculate_average_event_times    (event_processing.py)                *)
(* and the chart code that drives them (charts/gantt_chart.py).            *)
(*                                                                         *)
(* A calendar date is a day number (10 stands for 2024-01-10, 11 for       *)
(* 2024-01-11, ...).  A datetime is the record [day, hour, minute, second].*)
(* A string is the sequence of its characters.                             *)
(***************************************************************************)
EXTENDS Integers, Sequences, FiniteSets, TLC

VARIABLES flight_data, pc, events_dict, adjusted_dict, event_times, average_times,
          durations, conv, sb, timeline_average_times, gantt_data, cascade_bars,
          session_state, rendered, cache, clock, call

vars == <<flight_data, pc, events_dict, adjusted_dict, event_times, average_times,
          durations, conv, sb, timeline_average_times, gantt_data, cascade_bars,
          session_state, rendered, cache, clock, call>>

\* the state of the multi-flight charts, the data-entry page and the flight
\* status service
later == <<timeline_average_times, gantt_data, cascade_bars, session_state, rendered,
           cache, clock, call>>

\* the state of the other views
idle == <<durations, conv, sb, later>>

\* the other views have not run
InitLater ==
    /\ timeline_average_times = <<>>
    /\ gantt_data = <<>>
    /\ cascade_bars = <<>>
    /\ session_state = <<>>
    /\ rendered = <<>>
    /\ cache = <<>>
    /\ clock = 0
    /\ call = <<>>

(***************************************************************************)
(* Bounds of the model                                                     *)
(***************************************************************************)
MaxPresent == 3   \* events of a generated flight record that carry a value
MaxFlights == 3   \* flight records of a cohort
MaxClock == 1200  \* seconds the clock of the flight status service runs
NumDays == 2      \* distinct reference dates of the records of a cohort

RefDay == 10      \* the first reference date (2024-01-10); any date does
Days == RefDay..(RefDay + NumDays - 1)

(***************************************************************************)
(* Values                                                                  *)
(***************************************************************************)
None == [kind |-> "none"]

DT(d, h, m, s) == [kind |-> "datetime", day |-> d, hour |-> h, minute |-> m, second |-> s]

TimeObj(h, m, s) == [kind |-> "time", hour |-> h, minute |-> m, second |-> s]

Str(cs) == [kind |-> "str", chars |-> cs]

IsoDate(d) == [kind |-> "iso", day |-> d]

DateObj(d) == [kind |-> "date", day |-> d]

\* datetime - datetime, as total_seconds()
TotalSeconds(dt) == dt.day * 86400 + dt.hour * 3600 + dt.minute * 60 + dt.second

\* datetime + timedelta(days=k)
\* timedelta(days=2) in place of timedelta(days=1)
AddDays_TwoDays(dt, k) == [dt EXCEPT !.day = @ + 2 * k]

AddDays(dt, k) == [dt EXCEPT !.day = @ + k]

\* str.format of a two-digit field, and the characters of "HH:MM" / "HH:MM:SS"
Digits == <<"0", "1", "2", "3", "4", "5", "6", "7", "8", "9">>

Fmt2(n) == <<Digits[(n \div 10) + 1], Digits[(n % 10) + 1]>>

HHMM(h, m) == Str(Fmt2(h) \o <<":">> \o Fmt2(m))

HHMMSS(h, m, s) == Str(Fmt2(h) \o <<":">> \o Fmt2(m) \o <<":">> \o Fmt2(s))

(***************************************************************************)
(* The nine event columns of a flight record                               *)
(***************************************************************************)
events == <<"groomers_in", "groomers_out", "crew_at_gate", "ok_to_board",
            "flight_secure", "cierre_de_puerta", "push_back", "std", "atd">>

EventNames == {events[i] : i \in 1..Len(events)}

early_events == <<"groomers_in", "crew_at_gate">>

late_events == <<"flight_secure", "cierre_de_puerta", "push_back", "atd">>

SeqRange(s) == {s[i] : i \in 1..Len(s)}

(***************************************************************************)
(* convert_time_string_to_datetime                                         *)
(***************************************************************************)
IsDigit(c) == \E i \in 1..10 : Digits[i] = c

DigitVal(c) == (CHOOSE i \in 1..10 : Digits[i] = c) - 1

\* value of a string of one or two digits
NumVal(cs) == IF Len(cs) = 1 THEN DigitVal(cs[1]) ELSE 10 * DigitVal(cs[1]) + DigitVal(cs[2])

IsNum(cs) == Len(cs) \in {1, 2} /\ \A i \in 1..Len(cs) : IsDigit(cs[i])

\* strptime(..., "%H:%M") on the time part: %H is 2[0-3]|[0-1]\d|\d, %M is
\* [0-5]\d|\d, and the whole string has to be consumed
ColonAt(cs) == {i \in 1..Len(cs) : cs[i] = ":"}

MatchesHM(cs) ==
    /\ Cardinality(ColonAt(cs)) = 1
    /\ LET i == CHOOSE j \in ColonAt(cs) : TRUE
           hh == SubSeq(cs, 1, i - 1)
           mm == SubSeq(cs, i + 1, Len(cs))
       IN  /\ IsNum(hh) /\ IsNum(mm)
           /\ NumVal(hh) <= 23
           /\ NumVal(mm) <= 59

ParsedHour(cs) == NumVal(SubSeq(cs, 1, (CHOOSE j \in ColonAt(cs) : TRUE) - 1))

ParsedMinute(cs) == NumVal(SubSeq(cs, (CHOOSE j \in ColonAt(cs) : TRUE) + 1, Len(cs)))

\* the seconds are not cut off before the string is parsed
convert_time_string_to_datetime_NoCut(date_str, time_obj) ==
    IF time_obj.kind = "none" THEN None
    ELSE IF time_obj.kind = "time"
         THEN IF date_str.kind = "iso"
              THEN DT(date_str.day, time_obj.hour, time_obj.minute, time_obj.second)
              ELSE None
    ELSE IF date_str.kind \in {"iso", "date"} /\ MatchesHM(time_obj.chars)
         THEN DT(date_str.day, ParsedHour(time_obj.chars), ParsedMinute(time_obj.chars), 0)
         ELSE None

\* the date part: strptime(date_str, "%Y-%m-%d") accepts an ISO string and
\* raises TypeError on anything that is not a string; inside an f-string a
\* date object is formatted as its ISO string
convert_time_string_to_datetime(date_str, time_obj) ==
    IF time_obj.kind = "none" THEN None
    ELSE IF time_obj.kind = "time"
         THEN IF date_str.kind = "iso"
              THEN DT(date_str.day, time_obj.hour, time_obj.minute, time_obj.second)
              ELSE None
    ELSE LET time_str == IF Len(time_obj.chars) > 5
                         THEN SubSeq(time_obj.chars, 1, 5)
                         ELSE time_obj.chars
         IN  IF date_str.kind \in {"iso", "date"} /\ MatchesHM(time_str)
             THEN DT(date_str.day, ParsedHour(time_str), ParsedMinute(time_str), 0)
             ELSE None

\* Python truthiness of a stored value: None and "" are false
Truthy(v) == ~(v.kind = "none" \/ (v.kind = "str" /\ v.chars = <<>>))

(***************************************************************************)
(* handle_midnight_crossover                                               *)
(***************************************************************************)
RECURSIVE SumMinuteOfDay(_, _)
\* sum(dt.hour * 60 + dt.minute) over the events of names that are present
SumMinuteOfDay(d, names) ==
    IF names = {} THEN 0
    ELSE LET e == CHOOSE x \in names : TRUE
         IN  d[e].hour * 60 + d[e].minute + SumMinuteOfDay(d, names \ {e})

Present(d, names) == {e \in SeqRange(names) \cap DOMAIN d : d[e] # None}

\* avg_early > avg_late and avg_early > 20 * 60 and avg_late < 4 * 60, the
\* quotients compared as fractions
\* the test avg_late < 4 * 60 left out
is_overnight_NoLateBound(d) ==
    LET early == Present(d, early_events)
        late == Present(d, late_events)
        sum_early == SumMinuteOfDay(d, early)
        sum_late == SumMinuteOfDay(d, late)
        n_early == Cardinality(early)
        n_late == Cardinality(late)
    IN  /\ early # {} /\ late # {}
        /\ sum_early * n_late > sum_late * n_early
        /\ sum_early > 20 * 60 * n_early

is_overnight(d) ==
    LET early == Present(d, early_events)
        late == Present(d, late_events)
        sum_early == SumMinuteOfDay(d, early)
        sum_late == SumMinuteOfDay(d, late)
        n_early == Cardinality(early)
        n_late == Cardinality(late)
    IN  /\ early # {} /\ late # {}
        /\ sum_early * n_late > sum_late * n_early
        /\ sum_early > 20 * 60 * n_early
        /\ sum_late < 4 * 60 * n_late

\* max(valid_times) in place of min
min_time_Latest(d) ==
    LET valid == {d[e] : e \in {x \in DOMAIN d : d[x] # None}}
    IN  CHOOSE t \in valid : \A u \in valid : TotalSeconds(t) >= TotalSeconds(u)

\* the first present timestamp in place of the minimum
min_time_First(d) ==
    LET first == CHOOSE i \in 1..Len(events) :
                     /\ d[events[i]] # None
                     /\ \A j \in 1..(i - 1) : d[events[j]] = None
    IN  d[events[first]]

min_time(d) ==
    LET valid == {d[e] : e \in {x \in DOMAIN d : d[x] # None}}
    IN  CHOOSE t \in valid : \A u \in valid : TotalSeconds(t) <= TotalSeconds(u)

\* the hour test inverted: event_time.hour >= 12
OvernightShift_Afternoon(d, event) ==
    is_overnight(d) /\ event \in SeqRange(late_events) /\ d[event].hour >= 12

OvernightShift(d, event) ==
    is_overnight(d) /\ event \in SeqRange(late_events) /\ d[event].hour < 12

\* a threshold of 24 hours in place of 12
GapShift_FullDay(d, event) ==
    LET diff == TotalSeconds(d[event]) - TotalSeconds(min_time(d))
    IN  IF diff > 24 * 3600 THEN AddDays(d[event], -1)
        ELSE IF diff < -(24 * 3600) THEN AddDays(d[event], 1)
        ELSE d[event]

\* >= in place of >
GapShift_Inclusive(d, event) ==
    LET diff == TotalSeconds(d[event]) - TotalSeconds(min_time(d))
    IN  IF diff >= 12 * 3600 THEN AddDays(d[event], -1)
        ELSE IF diff <= -(12 * 3600) THEN AddDays(d[event], 1)
        ELSE d[event]

GapShift(d, event) ==
    LET diff == TotalSeconds(d[event]) - TotalSeconds(min_time(d))
    IN  IF diff > 12 * 3600 THEN AddDays(d[event], -1)
        ELSE IF diff < -(12 * 3600) THEN AddDays(d[event], 1)
        ELSE d[event]

\* null entries left out of adjusted_dict
handle_midnight_crossover_DropNull(d) ==
    IF \A e \in DOMAIN d : d[e] = None THEN d
    ELSE [event \in {e \in DOMAIN d : d[e] # None} |->
            IF OvernightShift(d, event) THEN AddDays(d[event], 1)
            ELSE GapShift(d, event)]

handle_midnight_crossover(d) ==
    IF \A e \in DOMAIN d : d[e] = None THEN d
    ELSE [event \in DOMAIN d |->
            IF d[event] = None THEN None
            ELSE IF OvernightShift(d, event) THEN AddDays(d[event], 1)
            ELSE GapShift(d, event)]

(***************************************************************************)
(* calculate_average_event_times (event_processing.py)                     *)
(***************************************************************************)
RECURSIVE CollectTimes_SkipFlight(_, _, _)
\* a value that does not convert makes the whole flight contribute nothing
CollectTimes_SkipFlight(flights, event_name, n) ==
    IF n = 0 THEN <<>>
    ELSE LET flight == flights[n]
             rest == CollectTimes_SkipFlight(flights, event_name, n - 1)
             datetime_obj == convert_time_string_to_datetime(flight.flight_date,
                                                             flight.times[event_name])
             failed == \E e \in DOMAIN flight.times :
                          /\ Truthy(flight.times[e])
                          /\ convert_time_string_to_datetime(flight.flight_date,
                                                             flight.times[e]) = None
         IN  IF flight.flight_date = None \/ failed THEN rest
             ELSE IF Truthy(flight.times[event_name]) /\ datetime_obj # None
                  THEN Append(rest, datetime_obj)
                  ELSE rest

RECURSIVE CollectTimes(_, _, _)
\* event_times[event_name]: the converted values of the first n flights, in
\* flight order; a flight without flight_date is skipped, and so is a value
\* that is falsy or does not convert
CollectTimes(flights, event_name, n) ==
    IF n = 0 THEN <<>>
    ELSE LET flight == flights[n]
             rest == CollectTimes(flights, event_name, n - 1)
             datetime_obj == convert_time_string_to_datetime(flight.flight_date,
                                                             flight.times[event_name])
         IN  IF flight.flight_date = None THEN rest
             ELSE IF Truthy(flight.times[event_name]) /\ datetime_obj # None
                  THEN Append(rest, datetime_obj)
                  ELSE rest

RECURSIVE InsertSorted(_, _)
InsertSorted(t, s) ==
    IF s = <<>> THEN <<t>>
    ELSE IF TotalSeconds(t) < TotalSeconds(Head(s)) THEN <<t>> \o s
    ELSE <<Head(s)>> \o InsertSorted(t, Tail(s))

\* the times are left in the order they were collected
sorted_AsCollected(s) == s

RECURSIVE sorted(_)
sorted(s) == IF s = <<>> THEN <<>> ELSE InsertSorted(Head(s), sorted(Tail(s)))

\* a gap of more than 12 hours between two consecutive sorted times
HasGap(sorted_times) ==
    \E i \in 1..(Len(sorted_times) - 1) :
        TotalSeconds(sorted_times[i + 1]) - TotalSeconds(sorted_times[i]) > 12 * 3600

RECURSIVE temp_adjusted_times_HalfDay(_, _)
\* a sample is pulled back by 12 hours in place of a whole day
temp_adjusted_times_HalfDay(sorted_times, n) ==
    IF n = 1 THEN <<sorted_times[1]>>
    ELSE LET prev == temp_adjusted_times_HalfDay(sorted_times, n - 1)
             current_time == sorted_times[n]
             previous_time == prev[n - 1]
             diff == TotalSeconds(current_time) - TotalSeconds(previous_time)
         IN  IF diff > 12 * 3600
             THEN Append(prev, [current_time EXCEPT !.hour = (@ + 12) % 24])
             ELSE IF -diff > 12 * 3600 THEN Append(prev, AddDays(current_time, 1))
             ELSE Append(prev, current_time)

RECURSIVE temp_adjusted_times(_, _)
\* the first n entries of temp_adjusted_times: each sorted time is compared
\* with the last adjusted time
temp_adjusted_times(sorted_times, n) ==
    IF n = 1 THEN <<sorted_times[1]>>
    ELSE LET prev == temp_adjusted_times(sorted_times, n - 1)
             current_time == sorted_times[n]
             previous_time == prev[n - 1]
             diff == TotalSeconds(current_time) - TotalSeconds(previous_time)
         IN  IF diff > 12 * 3600 THEN Append(prev, AddDays(current_time, -1))
             ELSE IF -diff > 12 * 3600 THEN Append(prev, AddDays(current_time, 1))
             ELSE Append(prev, current_time)

RECURSIVE SumSecondsOfDay_MinuteUnscaled(_)
\* t.minute in place of t.minute * 60
SumSecondsOfDay_MinuteUnscaled(s) ==
    IF s = <<>> THEN 0
    ELSE Head(s).hour * 3600 + Head(s).minute + Head(s).second
            + SumSecondsOfDay_MinuteUnscaled(Tail(s))

RECURSIVE SumSecondsOfDay(_)
SumSecondsOfDay(s) ==
    IF s = <<>> THEN 0
    ELSE Head(s).hour * 3600 + Head(s).minute * 60 + Head(s).second + SumSecondsOfDay(Tail(s))

\* the whole seconds of total / len
MeanSeconds(s) == SumSecondsOfDay(s) \div Len(s)

\* reference_date taken from the last sorted time in place of the first
AverageTime_LastDate(times_list) ==
    LET sorted_times == sorted(times_list)
        adjusted_times_for_avg ==
            IF HasGap(sorted_times)
            THEN temp_adjusted_times(sorted_times, Len(sorted_times))
            ELSE sorted_times
        avg == MeanSeconds(adjusted_times_for_avg)
    IN  DT(sorted_times[Len(sorted_times)].day, avg \div 3600, (avg % 3600) \div 60, avg % 60)

\* the average of one event's non-empty list of times
AverageTime(times_list) ==
    LET sorted_times == sorted(times_list)
        adjusted_times_for_avg ==
            IF HasGap(sorted_times)
            THEN temp_adjusted_times(sorted_times, Len(sorted_times))
            ELSE sorted_times
        avg == MeanSeconds(adjusted_times_for_avg)
    IN  DT(sorted_times[1].day, avg \div 3600, (avg % 3600) \div 60, avg % 60)

\* an event without times is null-filled instead of left out
AverageOver_NullFilled(times) ==
    [event_name \in DOMAIN times |->
        IF times[event_name] = <<>> THEN None ELSE AverageTime(times[event_name])]

\* average_times: the events with at least one time
AverageOver(times) ==
    [event_name \in {e \in DOMAIN times : times[e] # <<>>} |-> AverageTime(times[event_name])]

(***************************************************************************)
(* Single-flight view (create_gantt_chart, not a list): resolve the nine   *)
(* events on the flight date, then adjust                                  *)
(***************************************************************************)
ResolveFlight(flight) ==
    [event \in EventNames |->
        IF Truthy(flight.times[event])
        THEN convert_time_string_to_datetime(flight.flight_date, flight.times[event])
        ELSE None]

\* stored values a generated record draws from
ClockPool ==
    { HHMMSS(0, 5, 0), HHMMSS(8, 0, 0), TimeObj(11, 55, 30),
      HHMMSS(20, 0, 0), HHMM(20, 5), HHMMSS(23, 55, 0),
      Str(<<"2", "5", ":", "0", "0">>) }

Blank == [e \in EventNames |-> None]

\* the event mapping that carries the values of f and nothing else
RecordOf(f) == [e \in EventNames |-> IF e \in DOMAIN f THEN f[e] ELSE None]

Columns(n) == {S \in SUBSET EventNames : Cardinality(S) <= n}

\* the overnight turnaround of the specification's scenario
OvernightRecord ==
    [Blank EXCEPT !["groomers_in"] = HHMMSS(23, 10, 0),
                  !["crew_at_gate"] = HHMMSS(23, 40, 0),
                  !["cierre_de_puerta"] = HHMMSS(0, 35, 0),
                  !["push_back"] = HHMMSS(0, 40, 0),
                  !["atd"] = HHMMSS(0, 45, 0)]

\* an overnight turnaround with one late-phase event after noon
LateNoonRecord ==
    [Blank EXCEPT !["crew_at_gate"] = HHMM(23, 40),
                  !["flight_secure"] = HHMM(0, 5),
                  !["cierre_de_puerta"] = HHMM(0, 5),
                  !["push_back"] = TimeObj(0, 10, 0),
                  !["atd"] = HHMM(12, 0),
                  !["std"] = Str(<<>>)]

StdAtdRecord ==
    [Blank EXCEPT !["std"] = HHMM(23, 55), !["atd"] = HHMM(0, 5)]

ScenarioRecords == {OvernightRecord, LateNoonRecord, StdAtdRecord}

Init ==
    /\ \/ \E S \in Columns(MaxPresent) : \E f \in [S -> ClockPool] :
              flight_data = [flight_date |-> IsoDate(RefDay), times |-> RecordOf(f)]
       \/ \E r \in ScenarioRecords :
              flight_data = [flight_date |-> IsoDate(RefDay), times |-> r]
       \/ flight_data = [flight_date |-> None, times |-> StdAtdRecord]
    /\ pc = "start"
    /\ events_dict = <<>>
    /\ adjusted_dict = <<>>
    /\ event_times = <<>>
    /\ average_times = <<>>
    /\ durations = <<>>
    /\ InitLater
    /\ conv = <<>>
    /\ sb = <<>>

\* gantt_chart.py: "if not flight_date: st.error(...); return None"
NoFlightDate ==
    /\ pc = "start"
    /\ flight_data.flight_date = None
    /\ pc' = "no_date"
    /\ UNCHANGED <<flight_data, events_dict, adjusted_dict, event_times, average_times, idle>>

ResolveEvents ==
    /\ pc = "start"
    /\ flight_data.flight_date # None
    /\ events_dict' = ResolveFlight(flight_data)
    /\ pc' = "resolved"
    /\ UNCHANGED <<flight_data, adjusted_dict, event_times, average_times, idle>>

AdjustEvents ==
    /\ pc = "resolved"
    /\ adjusted_dict' = handle_midnight_crossover(events_dict)
    /\ pc' = "adjusted"
    /\ UNCHANGED <<flight_data, events_dict, event_times, average_times, idle>>

Next == NoFlightDate \/ ResolveEvents \/ AdjustEvents

Spec == Init /\ [][Next]_vars

(***************************************************************************)
(* Multi-flight view: a list of flight records is averaged                 *)
(***************************************************************************)
Only(event, v) == [Blank EXCEPT ![event] = v]

\* a record with values that do not convert
BadRecord ==
    [Blank EXCEPT !["groomers_in"] = Str(<<"2", "5", ":", "0", "0">>),
                  !["std"] = Str(<<>>),
                  !["push_back"] = HHMMSS(23, 55, 30)]

\* a record that reports groomers_in and push_back
Turnaround(g, p) == [Blank EXCEPT !["groomers_in"] = g, !["push_back"] = p]

\* records that occur on every reference date of the model
CohortRecords ==
    { Turnaround(HHMM(7, 0), HHMM(23, 50)),
      Turnaround(HHMMSS(7, 10, 0), HHMMSS(23, 55, 0)),
      Turnaround(TimeObj(6, 50, 0), HHMM(0, 5)) }

CohortFlights ==
    { [flight_date |-> IsoDate(d), times |-> r] : d \in Days, r \in CohortRecords }
    \cup { [flight_date |-> IsoDate(RefDay), times |-> r]
             : r \in {StdAtdRecord, OvernightRecord, BadRecord} }
    \cup { [flight_date |-> None, times |-> Only("groomers_in", HHMM(7, 0))] }

InitAvg ==
    /\ \E n \in 1..MaxFlights : flight_data \in [1..n -> CohortFlights]
    /\ pc = "start"
    /\ events_dict = <<>>
    /\ adjusted_dict = <<>>
    /\ event_times = <<>>
    /\ average_times = <<>>
    /\ durations = <<>>
    /\ InitLater
    /\ conv = <<>>
    /\ sb = <<>>

\* lines 31-53: collect the converted times of every event
CollectEventTimes ==
    /\ pc = "start"
    /\ event_times' = [e \in EventNames |-> CollectTimes(flight_data, e, Len(flight_data))]
    /\ pc' = "collected"
    /\ UNCHANGED <<flight_data, events_dict, adjusted_dict, average_times, idle>>

\* lines 56-143: average every event that has times
AverageEvents ==
    /\ pc = "collected"
    /\ average_times' = AverageOver(event_times)
    /\ pc' = "averaged"
    /\ UNCHANGED <<flight_data, events_dict, adjusted_dict, event_times, idle>>

NextAvg == CollectEventTimes \/ AverageEvents

SpecAvg == InitAvg /\ [][NextAvg]_vars

(***************************************************************************)
(* convert_time_string_to_datetime applied to one (date, time value) pair  *)
(***************************************************************************)
ConvHours == {0, 9, 14, 23}

ConvMinutes == {0, 30, 59}

ConvSeconds == {0, 45}

\* strings that are not of the form HH:MM or HH:MM:SS with fields in range
MalformedStrings ==
    { Str(<<"2", "5", ":", "0", "0">>), Str(<<"2", "4", ":", "0", "0">>),
      Str(<<"1", "2", ":", "6", "0">>), Str(<<"a", "b", ":", "c", "d">>),
      Str(<<"1", "2", "0", "0">>), Str(<<"1", "2", ":", "3", "4", "5">>),
      Str(<<"2", "3", ":", "5", "5", ":", "9", "9">>),
      Str(<<"1", "2", ":", "6", "0", ":", "0", "0">>),
      Str(<<"7", ":", "0", "5", ":", "0", "0">>) }

ConvTimes ==
    {None, Str(<<>>)}
    \cup {TimeObj(h, m, s) : h \in {0, 23}, m \in {0, 59}, s \in ConvSeconds}
    \cup {HHMM(h, m) : h \in ConvHours, m \in ConvMinutes}
    \cup {HHMMSS(h, m, s) : h \in ConvHours, m \in ConvMinutes, s \in ConvSeconds}
    \cup MalformedStrings

ConvDates == {IsoDate(d) : d \in Days} \cup {DateObj(d) : d \in Days}

InitConv ==
    /\ \E d \in ConvDates, t \in ConvTimes : conv = [date_str |-> d, time_obj |-> t, result |-> None]
    /\ pc = "start"
    /\ flight_data = <<>>
    /\ events_dict = <<>>
    /\ adjusted_dict = <<>>
    /\ event_times = <<>>
    /\ average_times = <<>>
    /\ durations = <<>>
    /\ InitLater
    /\ sb = <<>>

Convert ==
    /\ pc = "start"
    /\ conv' = [conv EXCEPT !.result = convert_time_string_to_datetime(conv.date_str, conv.time_obj)]
    /\ pc' = "converted"
    /\ UNCHANGED <<flight_data, events_dict, adjusted_dict, event_times, average_times,
                   durations, sb, later>>

NextConv == Convert

SpecConv == InitConv /\ [][NextConv]_vars

(***************************************************************************)
(* send_data_to_supabase (supabase_service.py)                             *)
(*                                                                         *)
(* The client is either None or a client whose behaviour on                *)
(* client.table(name).insert(data).execute() is one of: a response whose   *)
(* error is None, a response without an error attribute, a response with   *)
(* an error, or an exception thrown by one of the three calls.  A message  *)
(* is the sequence of the pieces it is concatenated from.                  *)
(***************************************************************************)
TableNames == {"flightfeportava", "FlightReport"}

DataPool == {[flight_number |-> "AV205"], [flight_number |-> "AV625"], [flight_number |-> ""]}

ErrorTexts == {"Simulated database error", "duplicate key"}

Behaviours ==
    {[kind |-> "ok"], [kind |-> "no_error_attr"]}
    \cup {[kind |-> "error", text |-> e] : e \in ErrorTexts}
    \cup {[kind |-> "throws", at_call |-> n, text |-> e] : n \in 1..3, e \in ErrorTexts}

Returned == [kind |-> "returned"]

Raised(type, message) == [kind |-> "raised", type |-> type, message |-> message]

\* the calls made on the client, in order, up to the one that throws
ClientCalls(table_name, data, behaviour) ==
    LET all == <<[op |-> "table", arg |-> table_name],
                 [op |-> "insert", arg |-> data],
                 [op |-> "execute", arg |-> <<>>]>>
    IN  IF behaviour.kind = "throws" THEN SubSeq(all, 1, behaviour.at_call) ELSE all

\* the error of a response is ignored
send_data_to_supabase_IgnoreError(client, table_name, data, behaviour) ==
    IF client = None
    THEN [calls |-> <<>>,
          outcome |-> Raised("SupabaseWriteError",
                             <<"Cannot send data: Supabase client is not initialized">>)]
    ELSE [calls |-> ClientCalls(table_name, data, behaviour),
          outcome |->
             IF behaviour.kind = "throws"
             THEN Raised("SupabaseWriteError",
                         <<"Error sending data to Supabase: ", behaviour.text>>)
             ELSE Returned]

\* the calls made and how the function ends; the SupabaseWriteError raised
\* inside the try block for a response error is caught by "except Exception"
\* and wrapped again
send_data_to_supabase(client, table_name, data, behaviour) ==
    IF client = None
    THEN [calls |-> <<>>,
          outcome |-> Raised("SupabaseWriteError",
                             <<"Cannot send data: Supabase client is not initialized">>)]
    ELSE [calls |-> ClientCalls(table_name, data, behaviour),
          outcome |->
             IF behaviour.kind = "throws"
             THEN Raised("SupabaseWriteError",
                         <<"Error sending data to Supabase: ", behaviour.text>>)
             ELSE IF behaviour.kind = "error"
             THEN Raised("SupabaseWriteError",
                         <<"Error sending data to Supabase: ",
                           "Error inserting into Supabase: ", behaviour.text>>)
             ELSE Returned]

InitSend ==
    /\ \E c \in {None, [kind |-> "client"]}, t \in TableNames, d \in DataPool, b \in Behaviours :
          sb = [client |-> c, table_name |-> t, data |-> d, behaviour |-> b,
                calls |-> <<>>, outcome |-> None]
    /\ pc = "start"
    /\ flight_data = <<>>
    /\ events_dict = <<>>
    /\ adjusted_dict = <<>>
    /\ event_times = <<>>
    /\ average_times = <<>>
    /\ durations = <<>>
    /\ InitLater
    /\ conv = <<>>

SendData ==
    /\ pc = "start"
    /\ LET r == send_data_to_supabase(sb.client, sb.table_name, sb.data, sb.behaviour)
       IN  sb' = [sb EXCEPT !.calls = r.calls, !.outcome = r.outcome]
    /\ pc' = "sent"
    /\ UNCHANGED <<flight_data, events_dict, adjusted_dict, event_times, average_times,
                   durations, conv, later>>

NextSend == SendData

SpecSend == InitSend /\ [][NextSend]_vars

(***************************************************************************)
(* calculate_average_event_times of timeline_chart.py, the second          *)
(* implementation, run on the cohort after the first                       *)
(***************************************************************************)
\* each sorted time is compared with the previous sorted time
adjusted_times(sorted_times) ==
    [i \in 1..Len(sorted_times) |->
        IF i > 1 /\ TotalSeconds(sorted_times[i]) - TotalSeconds(sorted_times[i - 1]) > 12 * 3600
        THEN AddDays(sorted_times[i], -1)
        ELSE sorted_times[i]]

TimelineAverageTime(times) ==
    LET sorted_times == sorted(times)
        averaged == IF HasGap(sorted_times) THEN adjusted_times(sorted_times) ELSE sorted_times
        avg_seconds == SumSecondsOfDay(averaged) \div Len(averaged)
    IN  DT(sorted_times[1].day, avg_seconds \div 3600, (avg_seconds % 3600) \div 60,
           avg_seconds % 60)

\* reference_date taken from the last sorted time in place of the first
TimelineAverageOver_LastDate(flights) ==
    LET times == [e \in EventNames |-> CollectTimes(flights, e, Len(flights))]
    IN  [event \in {e \in EventNames : times[e] # <<>>} |->
            LET t == TimelineAverageTime(times[event])
                last == sorted(times[event])[Len(times[event])]
            IN  [t EXCEPT !.day = last.day]]

TimelineAverageOver(flights) ==
    LET times == [e \in EventNames |-> CollectTimes(flights, e, Len(flights))]
    IN  [event \in {e \in EventNames : times[e] # <<>>} |-> TimelineAverageTime(times[event])]

TimelineAverageEvents ==
    /\ pc = "averaged"
    /\ timeline_average_times' = TimelineAverageOver(flight_data)
    /\ pc' = "timeline_averaged"
    /\ UNCHANGED <<flight_data, events_dict, adjusted_dict, event_times, average_times,
                   durations, conv, sb, gantt_data, cascade_bars, session_state, rendered,
                   cache, clock, call>>

NextTwin == CollectEventTimes \/ AverageEvents \/ TimelineAverageEvents

SpecTwin == InitAvg /\ [][NextTwin]_vars

(***************************************************************************)
(* create_gantt_chart and create_cascade_timeline_chart on a list of       *)
(* flights.  A chart time is [sec, us]: whole seconds and microseconds.    *)
(***************************************************************************)
ChartTime(seconds, micros) ==
    [sec |-> seconds + micros \div 1000000, us |-> micros % 1000000]

\* a - b of two chart times
ChartDiff(a, b) ==
    IF a.us >= b.us THEN [sec |-> a.sec - b.sec, us |-> a.us - b.us]
    ELSE [sec |-> a.sec - b.sec - 1, us |-> a.us + 1000000 - b.us]

RECURSIVE InsertEvent(_, _, _)
InsertEvent(d, event, s) ==
    IF s = <<>> THEN <<event>>
    ELSE IF TotalSeconds(d[event]) < TotalSeconds(d[Head(s)])
         THEN <<event>> \o s
         ELSE <<Head(s)>> \o InsertEvent(d, event, Tail(s))

RECURSIVE SortEvents(_, _, _)
\* sorted(events_dict.items(), key=time): the first n names of the event
\* order that are in d, by time, equal times in the event order
SortEvents(d, names, n) ==
    IF n = 0 THEN <<>>
    ELSE IF names[n] \in DOMAIN d /\ d[names[n]] # None
         THEN InsertEvent(d, names[n], SortEvents(d, names, n - 1))
         ELSE SortEvents(d, names, n - 1)

sorted_events(d) == SortEvents(d, events, Len(events))

\* timedelta / n, to the nearest microsecond, times k
IntervalTimes(gap, n, k) ==
    LET whole == gap \div n
        micros == (2 * (gap % n) * 1000000 + n) \div (2 * n)
    IN  ChartTime(k * whole, k * micros)

\* modified_sorted_events: events with the same time are spread evenly up
\* to the next different time, or over 5 minutes at the end
modified_sorted_events(d) ==
    LET s == sorted_events(d)
        n == Len(s)
    IN  [i \in 1..n |->
            LET same == {j \in 1..n : d[s[j]] = d[s[i]]}
                first == CHOOSE j \in same : \A m \in same : j <= m
                j == first + Cardinality(same)
                current_time == TotalSeconds(d[s[i]])
                end_time == IF j <= n THEN TotalSeconds(d[s[j]]) ELSE current_time + 5 * 60
                shift == IntervalTimes(end_time - current_time, Cardinality(same), i - first)
            IN  [event |-> s[i],
                 time |-> [sec |-> current_time + shift.sec, us |-> shift.us]]]

\* the rows of gantt_data; Duration is kept as a chart time, the chart
\* shows it in minutes
GanttRows(d) ==
    LET s == modified_sorted_events(d)
        n == Len(s)
    IN  [i \in 1..n |->
            IF i < n
            THEN LET current_time == s[i].time
                     next_time == IF s[i + 1].time = current_time
                                  THEN [current_time EXCEPT !.sec = @ + 60]
                                  ELSE s[i + 1].time
                     diff == ChartDiff(next_time, current_time)
                 IN  [Event |-> s[i].event, Start |-> current_time, Finish |-> next_time,
                      Duration |-> IF diff.sec < 60 THEN ChartTime(60, 0) ELSE diff]
            ELSE [Event |-> s[i].event, Start |-> s[i].time,
                  Finish |-> [s[i].time EXCEPT !.sec = @ + 5 * 60],
                  Duration |-> ChartTime(5 * 60, 0)]]

\* the bars of the cascade chart, one for every event but the last, and the
\* marker of the last event; a duration is kept in seconds
CascadeBars(d) ==
    LET s == sorted_events(d)
        n == Len(s)
    IN  [i \in 1..n |->
            IF i < n
            THEN LET current_time == TotalSeconds(d[s[i]])
                     next_time == IF d[s[i + 1]] = d[s[i]] THEN current_time + 60
                                  ELSE TotalSeconds(d[s[i + 1]])
                 IN  [Event |-> s[i], base |-> current_time,
                      Duration |-> IF next_time - current_time < 60 THEN 60
                                   ELSE next_time - current_time]
            ELSE [Event |-> s[i], base |-> TotalSeconds(d[s[i]]), Duration |-> 0]]

\* the chart of a list of flights: the message shown when it returns None,
\* else the rows drawn from the averages
MultiFlightChart(flights, chart) ==
    LET times == [e \in EventNames |-> CollectTimes(flights, e, Len(flights))]
        averages == AverageOver(times)
    IN  IF DOMAIN averages = {}
        THEN [fig |-> FALSE, rows |-> <<>>,
              message |-> "No hay suficientes datos para calcular tiempos promedio"]
        ELSE IF flights[1].flight_date = None
        THEN [fig |-> FALSE, rows |-> <<>>, message |-> "No hay fecha de vuelo disponible"]
        ELSE [fig |-> TRUE, message |-> "",
              rows |-> IF chart = "gantt" THEN GanttRows(averages) ELSE CascadeBars(averages)]

\* records that report one event, both events, or two events at one time
ChartRecords ==
    { Only("groomers_in", HHMM(7, 0)),
      Only("push_back", HHMM(23, 50)),
      Turnaround(HHMMSS(7, 10, 0), HHMMSS(23, 55, 0)),
      [Blank EXCEPT !["std"] = HHMM(23, 55), !["atd"] = HHMMSS(23, 55, 0),
                    !["cierre_de_puerta"] = TimeObj(23, 55, 0)] }

ChartFlights ==
    { [flight_date |-> IsoDate(d), times |-> r] : d \in Days, r \in ChartRecords }
    \cup { [flight_date |-> None, times |-> Only("groomers_in", HHMM(7, 0))] }

InitChart ==
    /\ \E n \in 1..MaxFlights : flight_data \in [1..n -> ChartFlights]
    /\ pc = "start"
    /\ events_dict = <<>>
    /\ adjusted_dict = <<>>
    /\ event_times = <<>>
    /\ average_times = <<>>
    /\ durations = <<>>
    /\ conv = <<>>
    /\ sb = <<>>
    /\ InitLater

CreateGanttChart ==
    /\ pc = "start"
    /\ gantt_data' = MultiFlightChart(flight_data, "gantt")
    /\ pc' = "gantt"
    /\ UNCHANGED <<flight_data, events_dict, adjusted_dict, event_times, average_times,
                   durations, conv, sb, timeline_average_times, cascade_bars, session_state,
                   rendered, cache, clock, call>>

CreateCascadeChart ==
    /\ pc = "gantt"
    /\ cascade_bars' = MultiFlightChart(flight_data, "cascade")
    /\ pc' = "cascade"
    /\ UNCHANGED <<flight_data, events_dict, adjusted_dict, event_times, average_times,
                   durations, conv, sb, timeline_average_times, gantt_data, session_state,
                   rendered, cache, clock, call>>

NextChart == CreateGanttChart \/ CreateCascadeChart

SpecChart == InitChart /\ [][NextChart]_vars

(***************************************************************************)
(* create_combined_events_chart (combined_events_chart.py), one flight:    *)
(* resolve the five required events, adjust, compute the three durations.  *)
(* A duration is kept in seconds; the chart shows seconds / 60.            *)
(***************************************************************************)
required_events == <<"groomers_in", "groomers_out", "crew_at_gate", "ok_to_board",
                     "flight_secure">>

ResolveRequired(flight) ==
    [event \in SeqRange(required_events) |->
        IF Truthy(flight.times[event])
        THEN convert_time_string_to_datetime(flight.flight_date, flight.times[event])
        ELSE None]

\* one combined event: <<>> when it is not shown, else its start, end and
\* duration
CombinedEvent(d, start_event, end_event) ==
    IF d[start_event] = None \/ d[end_event] = None THEN <<>>
    ELSE LET start_time == d[start_event]
             end_time == d[end_event]
             end_time_adjusted == AddDays(end_time, 1)
         IN  IF TotalSeconds(end_time) <= TotalSeconds(start_time)
             THEN IF TotalSeconds(end_time_adjusted) - TotalSeconds(start_time) < 12 * 60 * 60
                  THEN <<[start |-> start_time, end |-> end_time_adjusted,
                          seconds |-> TotalSeconds(end_time_adjusted) - TotalSeconds(start_time)]>>
                  ELSE <<>>
             ELSE <<[start |-> start_time, end |-> end_time,
                     seconds |-> TotalSeconds(end_time) - TotalSeconds(start_time)]>>

CombinedPairs ==
    [groomers_total |-> <<"groomers_in", "groomers_out">>,
     revision_avion |-> <<"crew_at_gate", "ok_to_board">>,
     boarding |-> <<"ok_to_board", "flight_secure">>]

\* the durations mapping: the combined events that are shown
CombinedDurations(d) ==
    LET shown == {k \in DOMAIN CombinedPairs :
                     CombinedEvent(d, CombinedPairs[k][1], CombinedPairs[k][2]) # <<>>}
    IN  [k \in shown |-> CombinedEvent(d, CombinedPairs[k][1], CombinedPairs[k][2])[1].seconds]

\* boarding from 23:50 to 00:20 on an overnight turnaround
BoardingRecord ==
    [Blank EXCEPT !["groomers_in"] = HHMM(23, 10),
                  !["crew_at_gate"] = HHMM(23, 40),
                  !["ok_to_board"] = HHMM(23, 50),
                  !["flight_secure"] = HHMM(0, 20)]

RequiredColumns(n) == {S \in SUBSET SeqRange(required_events) : Cardinality(S) <= n}

InitCombined ==
    /\ \/ \E S \in RequiredColumns(MaxPresent) : \E f \in [S -> ClockPool] :
              flight_data = [flight_date |-> IsoDate(RefDay), times |-> RecordOf(f)]
       \/ flight_data = [flight_date |-> IsoDate(RefDay), times |-> BoardingRecord]
       \/ flight_data = [flight_date |-> None, times |-> BoardingRecord]
    /\ pc = "start"
    /\ events_dict = <<>>
    /\ adjusted_dict = <<>>
    /\ event_times = <<>>
    /\ average_times = <<>>
    /\ durations = <<>>
    /\ InitLater
    /\ conv = <<>>
    /\ sb = <<>>

\* "if not flight_date: st.error(...); return None"
CombinedNoDate ==
    /\ pc = "start"
    /\ flight_data.flight_date = None
    /\ pc' = "no_date"
    /\ UNCHANGED <<flight_data, events_dict, adjusted_dict, event_times, average_times, idle>>

CombinedResolve ==
    /\ pc = "start"
    /\ flight_data.flight_date # None
    /\ events_dict' = ResolveRequired(flight_data)
    /\ pc' = "resolved"
    /\ UNCHANGED <<flight_data, adjusted_dict, event_times, average_times, idle>>

CombinedAdjust ==
    /\ pc = "resolved"
    /\ adjusted_dict' = handle_midnight_crossover(events_dict)
    /\ pc' = "adjusted"
    /\ UNCHANGED <<flight_data, events_dict, event_times, average_times, idle>>

ComputeDurations ==
    /\ pc = "adjusted"
    /\ durations' = CombinedDurations(adjusted_dict)
    /\ pc' = "durations"
    /\ UNCHANGED <<flight_data, events_dict, adjusted_dict, event_times, average_times,
                   conv, sb, later>>

NextCombined == CombinedNoDate \/ CombinedResolve \/ CombinedAdjust \/ ComputeDurations

SpecCombined == InitCombined /\ [][NextCombined]_vars

(***************************************************************************)
(* The data-entry page: render_data_entry_tab (data_entry_tab.py) and the  *)
(* same flow written out in app.py.  One action is one run of the script:  *)
(* a plain rerun, a click on "Revisar" or a click on "Enviar y Finalizar". *)
(* session_state is the mapping kept between runs, rendered the elements   *)
(* the last run showed, sb the client with the rows it has inserted.       *)
(***************************************************************************)
\* what render_flight_form returns for a validated form
FormPool ==
    {[data_to_display |-> d, data_for_database |-> d]
        : d \in {[flight_number |-> "AV205"], [flight_number |-> "AV625"]}}

\* an element on the page: its kind and what it carries
Shown(widget, arg) == widget :> arg

SetItem(ss, key, value) == (key :> value) @@ ss

\* the end of the try block around the send in data_entry_tab.py
TabSendResult(ss, r, report_text) ==
    IF r.outcome = Returned
    THEN [ss |-> SetItem(ss, "data_submitted", TRUE),
          shown |-> Shown("success", <<"Datos enviados exitosamente a la base de datos">>)
                        @@ Shown("copy_button", report_text)]
    ELSE [ss |-> ss,
          shown |-> Shown("error", <<"Error al enviar datos: ">> \o r.outcome.message)]

\* the same in app.py: "success, error_message = send_data_to_supabase(...)"
\* unpacks the None the function returns, a TypeError; that and a raised
\* SupabaseWriteError both end in "except Exception"
AppSendResult(ss, r, report_text) ==
    [ss |-> ss, shown |-> Shown("error", <<"Error al procesar el envío de datos">>)]

\* one run of the page: the session state and the elements shown after it,
\* and the send it made
PageRun(ss0, form_submitted, form_data, clicked, client, behaviour, page) ==
    LET ss1 == IF "form_data" \in DOMAIN ss0 THEN ss0 ELSE SetItem(ss0, "form_data", None)
        reviewed == form_submitted /\ form_data # None
        ss2 == IF reviewed THEN SetItem(ss1, "form_data", form_data) ELSE ss1
        top == IF reviewed THEN Shown("success", <<"Datos revisados correctamente.">>) ELSE <<>>
    IN  IF ss2["form_data"] = None
        THEN [ss |-> ss2, shown |-> top, sent |-> FALSE, send |-> <<>>]
        ELSE LET report_text == ss2["form_data"].data_to_display
                 review == top @@ Shown("text_area", report_text)
                               @@ Shown("button", <<"Enviar y Finalizar">>)
             IN  IF clicked
                 THEN LET database_data == ss2["form_data"].data_for_database
                          r == send_data_to_supabase(client, "flightfeportava",
                                                     database_data, behaviour)
                          end == IF page = "tab" THEN TabSendResult(ss2, r, report_text)
                                 ELSE AppSendResult(ss2, r, report_text)
                      IN  [ss |-> end.ss, shown |-> end.shown @@ review, sent |-> TRUE,
                           send |-> [data |-> database_data, behaviour |-> behaviour,
                                     calls |-> r.calls, outcome |-> r.outcome]]
                 ELSE IF "data_submitted" \notin DOMAIN ss2 \/ ~ss2["data_submitted"]
                 THEN [ss |-> ss2, sent |-> FALSE, send |-> <<>>,
                       shown |-> review @@
                           Shown("warning", <<"Debe hacer clic en 'Enviar y Finalizar' antes de copiar el reporte">>)]
                 ELSE [ss |-> ss2, sent |-> FALSE, send |-> <<>>,
                       shown |-> review @@ Shown("copy_button", report_text)]

\* the rows of the table after a send: execute without an error stores the row
RowsAfter(rows, send) ==
    IF send.outcome = Returned THEN rows \cup {send.data} ELSE rows

InitEntry ==
    /\ \E c \in {None, [kind |-> "client"]} :
          sb = [client |-> c, rows |-> {}, last |-> <<>>]
    /\ session_state = <<>>
    /\ rendered = <<>>
    /\ pc = "start"
    /\ flight_data = <<>>
    /\ events_dict = <<>>
    /\ adjusted_dict = <<>>
    /\ event_times = <<>>
    /\ average_times = <<>>
    /\ durations = <<>>
    /\ conv = <<>>
    /\ timeline_average_times = <<>>
    /\ gantt_data = <<>>
    /\ cascade_bars = <<>>
    /\ cache = <<>>
    /\ clock = 0
    /\ call = <<>>

EntryFrame ==
    UNCHANGED <<flight_data, events_dict, adjusted_dict, event_times, average_times, durations,
                conv, timeline_average_times, gantt_data, cascade_bars, cache, clock, call>>

\* a run of the script with result run, reached by the interaction named
Page(run, interaction) ==
    /\ session_state' = run.ss
    /\ rendered' = run.shown
    /\ sb' = IF run.sent
             THEN [sb EXCEPT !.rows = RowsAfter(@, run.send), !.last = run.send]
             ELSE sb
    /\ pc' = interaction
    /\ EntryFrame

\* render_data_entry_tab: a rerun without a click, or "Revisar" on a form
\* that does not validate
TabRerun ==
    Page(PageRun(session_state, FALSE, None, FALSE, sb.client, None, "tab"), "rerun")

\* "Revisar" on a form that validates
TabReview ==
    \E form \in FormPool :
        Page(PageRun(session_state, TRUE, form, FALSE, sb.client, None, "tab"),
             "reviewed")

\* "Enviar y Finalizar", a button of the page shown
TabSend ==
    /\ "button" \in DOMAIN rendered
    /\ \E behaviour \in Behaviours :
          Page(PageRun(session_state, FALSE, None, TRUE, sb.client, behaviour, "tab"),
               "sent")

NextEntry == TabRerun \/ TabReview \/ TabSend

SpecEntry == InitEntry /\ [][NextEntry]_vars

\* the same page in app.py
AppRerun ==
    Page(PageRun(session_state, FALSE, None, FALSE, sb.client, None, "app"), "rerun")

AppReview ==
    \E form \in FormPool :
        Page(PageRun(session_state, TRUE, form, FALSE, sb.client, None, "app"),
             "reviewed")

AppSend ==
    /\ "button" \in DOMAIN rendered
    /\ \E behaviour \in Behaviours :
          Page(PageRun(session_state, FALSE, None, TRUE, sb.client, behaviour, "app"),
               "sent")

NextApp == AppRerun \/ AppReview \/ AppSend

SpecApp == InitEntry /\ [][NextApp]_vars

(***************************************************************************)
(* fetch_flight_status (api_service.py): cache is the module's dictionary, *)
(* clock the value of time.time(), call the last call with the cache entry *)
(* it read, the requests it issued and what it returned.                   *)
(***************************************************************************)
\* 15 * 60, 15 minutes in seconds
CACHE_EXPIRATION == 900

\* str.lower on the characters of a flight number
Lower(c) == IF c = "A" THEN "a" ELSE IF c = "V" THEN "v" ELSE c

RECURSIVE flight_number_formatted(_)
\* flight_number.replace(" ", "").lower()
flight_number_formatted(flight_number) ==
    IF flight_number = <<>> THEN <<>>
    ELSE IF Head(flight_number) = " " THEN flight_number_formatted(Tail(flight_number))
    ELSE <<Lower(Head(flight_number))>> \o flight_number_formatted(Tail(flight_number))

\* date.today() at the time now
Today(now) == IsoDate(RefDay + now \div 86400)

FlightNumbers == {<<"A", "V", " ", "2", "0", "4">>, <<"a", "v", "2", "0", "4">>}

CustomDates == {None, IsoDate(RefDay + 1)}

\* what one requests.get ends in: a status code, with the version of the
\* data the service holds when the code is 200, or a RequestException
Outcomes ==
    {[kind |-> "response", status_code |-> 200, version |-> v] : v \in 1..2}
    \cup {[kind |-> "response", status_code |-> 503, version |-> 0],
          [kind |-> "exception", status_code |-> 0, version |-> 0]}

\* the outcomes of the requests of one call: the second request is made
\* only after a first that did not succeed
AttemptOutcomes ==
    {<<o>> : o \in {x \in Outcomes : x.status_code = 200}}
    \cup {<<f, o>> : f \in {x \in Outcomes : x.status_code # 200}, o \in Outcomes}

api_keys == <<"api_key", "api_key_2">>

\* response.json() of a 200 response to a request
Json(flight, date, outcome) == [flight |-> flight, date |-> date, version |-> outcome.version]

Succeeds(outcome) == outcome.kind = "response" /\ outcome.status_code = 200

Request(i, flight, date, outcome) ==
    [key |-> api_keys[i], flight |-> flight, date |-> date, outcome |-> outcome]

\* a cached entry is returned whatever its age
fetch_flight_status_NoExpiry(c, now, flight_number, custom_date, outcomes) ==
    LET flight == flight_number_formatted(flight_number)
        flight_date == IF Truthy(custom_date) THEN custom_date ELSE Today(now)
        cache_key == [flight |-> flight, date |-> flight_date]
        cached == IF cache_key \in DOMAIN c THEN c[cache_key] ELSE None
        first == Request(1, flight, flight_date, outcomes[1])
        second == Request(2, flight, flight_date, outcomes[2])
        stored(o) == (cache_key :> [data |-> Json(flight, flight_date, o), timestamp |-> now]) @@ c
        base == [cache_key |-> cache_key, now |-> now, cached |-> cached]
    IN  IF cached # None
        THEN base @@ [requests |-> <<>>, result |-> cached.data, cache |-> c]
        ELSE IF Succeeds(outcomes[1])
        THEN base @@ [requests |-> <<first>>, cache |-> stored(outcomes[1]),
                      result |-> Json(flight, flight_date, outcomes[1])]
        ELSE IF Succeeds(outcomes[2])
        THEN base @@ [requests |-> <<first, second>>, cache |-> stored(outcomes[2]),
                      result |-> Json(flight, flight_date, outcomes[2])]
        ELSE base @@ [requests |-> <<first, second>>, result |-> None, cache |-> c]

\* the loop ends after the first key
fetch_flight_status_OneKey(c, now, flight_number, custom_date, outcomes) ==
    LET flight == flight_number_formatted(flight_number)
        flight_date == IF Truthy(custom_date) THEN custom_date ELSE Today(now)
        cache_key == [flight |-> flight, date |-> flight_date]
        cached == IF cache_key \in DOMAIN c THEN c[cache_key] ELSE None
        first == Request(1, flight, flight_date, outcomes[1])
        stored(o) == (cache_key :> [data |-> Json(flight, flight_date, o), timestamp |-> now]) @@ c
        base == [cache_key |-> cache_key, now |-> now, cached |-> cached]
    IN  IF cached # None /\ now - cached.timestamp < CACHE_EXPIRATION
        THEN base @@ [requests |-> <<>>, result |-> cached.data, cache |-> c]
        ELSE IF Succeeds(outcomes[1])
        THEN base @@ [requests |-> <<first>>, cache |-> stored(outcomes[1]),
                      result |-> Json(flight, flight_date, outcomes[1])]
        ELSE base @@ [requests |-> <<first>>, result |-> None, cache |-> c]

\* one call at the time now: the key, the entry read from the cache, the
\* requests issued, the value returned and the cache afterwards
fetch_flight_status(c, now, flight_number, custom_date, outcomes) ==
    LET flight == flight_number_formatted(flight_number)
        flight_date == IF Truthy(custom_date) THEN custom_date ELSE Today(now)
        cache_key == [flight |-> flight, date |-> flight_date]
        cached == IF cache_key \in DOMAIN c THEN c[cache_key] ELSE None
        first == Request(1, flight, flight_date, outcomes[1])
        second == Request(2, flight, flight_date, outcomes[2])
        stored(o) == (cache_key :> [data |-> Json(flight, flight_date, o), timestamp |-> now]) @@ c
        base == [cache_key |-> cache_key, now |-> now, cached |-> cached]
    IN  IF cached # None /\ now - cached.timestamp < CACHE_EXPIRATION
        THEN base @@ [requests |-> <<>>, result |-> cached.data, cache |-> c]
        ELSE IF Succeeds(outcomes[1])
        THEN base @@ [requests |-> <<first>>, cache |-> stored(outcomes[1]),
                      result |-> Json(flight, flight_date, outcomes[1])]
        ELSE IF Succeeds(outcomes[2])
        THEN base @@ [requests |-> <<first, second>>, cache |-> stored(outcomes[2]),
                      result |-> Json(flight, flight_date, outcomes[2])]
        ELSE base @@ [requests |-> <<first, second>>, result |-> None, cache |-> c]

InitApi ==
    /\ cache = <<>>
    /\ clock = 0
    /\ call = <<>>
    /\ pc = "start"
    /\ flight_data = <<>>
    /\ events_dict = <<>>
    /\ adjusted_dict = <<>>
    /\ event_times = <<>>
    /\ average_times = <<>>
    /\ durations = <<>>
    /\ conv = <<>>
    /\ sb = <<>>
    /\ timeline_average_times = <<>>
    /\ gantt_data = <<>>
    /\ cascade_bars = <<>>
    /\ session_state = <<>>
    /\ rendered = <<>>

ApiFrame ==
    UNCHANGED <<flight_data, events_dict, adjusted_dict, event_times, average_times, durations,
                conv, sb, timeline_average_times, gantt_data, cascade_bars, session_state,
                rendered>>

FetchFlightStatus ==
    /\ \E flight_number \in FlightNumbers, custom_date \in CustomDates,
          outcomes \in AttemptOutcomes :
          LET r == fetch_flight_status(cache, clock, flight_number, custom_date, outcomes)
          IN  /\ cache' = r.cache
              /\ call' = [cache_key |-> r.cache_key, now |-> r.now, cached |-> r.cached,
                          requests |-> r.requests, result |-> r.result]
    /\ pc' = "fetched"
    /\ UNCHANGED clock
    /\ ApiFrame

\* time passes between two calls
Tick ==
    /\ \E step \in {300, 600} :
          /\ clock + step <= MaxClock
          /\ clock' = clock + step
    /\ UNCHANGED <<cache, call, pc>>
    /\ ApiFrame

NextApi == FetchFlightStatus \/ Tick

SpecApi == InitApi /\ [][NextApi]_vars

(***************************************************************************)
(* Properties                                                              *)
(***************************************************************************)
TimeOfDay(dt) == <<dt.hour, dt.minute, dt.second>>

\* the overnight scenario, resolved on 2024-01-10
OvernightDict ==
    [Blank EXCEPT !["groomers_in"] = DT(RefDay, 23, 10, 0),
                  !["crew_at_gate"] = DT(RefDay, 23, 40, 0),
                  !["cierre_de_puerta"] = DT(RefDay, 0, 35, 0),
                  !["push_back"] = DT(RefDay, 0, 40, 0),
                  !["atd"] = DT(RefDay, 0, 45, 0)]

\* only std=23:55 and atd=00:05, resolved on the reference date
StdAtdDict ==
    [Blank EXCEPT !["std"] = DT(RefDay, 23, 55, 0), !["atd"] = DT(RefDay, 0, 5, 0)]

\* the times of day of the samples of an event
SampleClocks(event) == {TimeOfDay(event_times[event][i]) : i \in 1..Len(event_times[event])}

\* three flights whose push_back values are 23:50, 23:55 and 00:05
PushBackCohort ==
    /\ Len(flight_data) = 3
    /\ Len(event_times["push_back"]) = 3
    /\ SampleClocks("push_back") = {<<23, 50, 0>>, <<23, 55, 0>>, <<0, 5, 0>>}

\* three flights reporting groomers_in at 07:00, 07:10 and 06:50
GroomersCohort ==
    /\ Len(flight_data) = 3
    /\ Len(event_times["groomers_in"]) = 3
    /\ SampleClocks("groomers_in") = {<<7, 0, 0>>, <<7, 10, 0>>, <<6, 50, 0>>}

\* C1: for push_back values 23:50, 23:55 and 00:05 the average for push_back
\* is the time of day 23:56:40 (00:05 counted as 24:05), not 15:56:40
C1_CrossoverMean ==
    (pc = "averaged" /\ PushBackCohort) =>
        /\ "push_back" \in DOMAIN average_times
        /\ TimeOfDay(average_times["push_back"]) = <<23, 56, 40>>

\* C2: in the overnight scenario cierre_de_puerta, push_back and atd are
\* returned on 2024-01-11 and the five returned times are strictly ascending
C2_OvernightAscending ==
    (pc = "adjusted" /\ events_dict = OvernightDict) =>
        /\ \A e \in {"cierre_de_puerta", "push_back", "atd"} : adjusted_dict[e].day = RefDay + 1
        /\ TotalSeconds(adjusted_dict["groomers_in"]) < TotalSeconds(adjusted_dict["crew_at_gate"])
        /\ TotalSeconds(adjusted_dict["crew_at_gate"]) < TotalSeconds(adjusted_dict["cierre_de_puerta"])
        /\ TotalSeconds(adjusted_dict["cierre_de_puerta"]) < TotalSeconds(adjusted_dict["push_back"])
        /\ TotalSeconds(adjusted_dict["push_back"]) < TotalSeconds(adjusted_dict["atd"])

C2_Witness == pc = "adjusted" /\ events_dict = OvernightDict

\* C3: in the overnight scenario groomers_in and crew_at_gate are returned
\* unchanged, on 2024-01-10
C3_EarlyUnchanged ==
    (pc = "adjusted" /\ events_dict = OvernightDict) =>
        \A e \in {"groomers_in", "crew_at_gate"} :
            adjusted_dict[e] = events_dict[e] /\ adjusted_dict[e].day = RefDay

\* C4: with only std=23:55 and atd=00:05, atd is returned on the day after
\* the reference date
C4_AtdForward ==
    (pc = "adjusted" /\ events_dict = StdAtdDict) =>
        adjusted_dict["atd"] = AddDays(events_dict["atd"], 1)

\* C5: with only std=23:55 and atd=00:05, the returned atd is later than the
\* returned std
C5_AtdAfterStd ==
    (pc = "adjusted" /\ events_dict = StdAtdDict) =>
        TotalSeconds(adjusted_dict["atd"]) > TotalSeconds(adjusted_dict["std"])

C5_Witness == pc = "adjusted" /\ events_dict = StdAtdDict

PresentTimes(d) == {d[e] : e \in {x \in DOMAIN d : d[x] # None}}

\* latest minus earliest present timestamp is at most 12 hours
WithinTwelveHours(d) ==
    \A t, u \in PresentTimes(d) : TotalSeconds(t) - TotalSeconds(u) <= 12 * 3600

\* C6: when all present timestamps lie within a 12-hour window, every
\* timestamp is returned unchanged
C6_NoCrossoverUnchanged ==
    (pc = "adjusted" /\ WithinTwelveHours(events_dict)) => adjusted_dict = events_dict

\* an early-phase and a late-phase event exactly 12 hours apart
C6_Witness ==
    /\ pc = "adjusted"
    /\ WithinTwelveHours(events_dict)
    /\ \E e \in SeqRange(early_events), l \in SeqRange(late_events) :
          /\ events_dict[e] # None /\ events_dict[l] # None
          /\ TotalSeconds(events_dict[e]) - TotalSeconds(events_dict[l]) = 12 * 3600

RECURSIVE AdjustedTimes(_, _, _)
\* the samples of an event when every flight is resolved and adjusted first
AdjustedTimes(flights, event_name, n) ==
    IF n = 0 THEN <<>>
    ELSE LET flight == flights[n]
             rest == AdjustedTimes(flights, event_name, n - 1)
         IN  IF flight.flight_date = None THEN rest
             ELSE LET t == handle_midnight_crossover(ResolveFlight(flight))[event_name]
                  IN  IF t # None THEN Append(rest, t) ELSE rest

\* C7: the averaged timestamps equal those obtained by resolving and
\* adjusting each flight and only then averaging across flights
C7_AdjustThenAverage ==
    pc = "averaged" =>
        average_times =
            AverageOver([e \in EventNames |-> AdjustedTimes(flight_data, e, Len(flight_data))])

\* C8: three flights reporting groomers_in at 07:00, 07:10 and 06:50, on any
\* reference dates, average to the time of day 07:00:00
C8_GroomersMean ==
    (pc = "averaged" /\ GroomersCohort) =>
        /\ "groomers_in" \in DOMAIN average_times
        /\ TimeOfDay(average_times["groomers_in"]) = <<7, 0, 0>>

\* the three flights are on different dates, more than 12 hours apart
C8_Witness ==
    /\ pc = "averaged"
    /\ GroomersCohort
    /\ HasGap(sorted(event_times["groomers_in"]))

\* C9: the returned mapping has exactly the input's event names and every
\* null input is null in the output, also when all values are null
C9_ShapeAndNulls ==
    pc = "adjusted" =>
        /\ DOMAIN adjusted_dict = DOMAIN events_dict
        /\ \A e \in DOMAIN events_dict : events_dict[e] = None => adjusted_dict[e] = None

\* some values are null and a present one was shifted
C9_Witness ==
    /\ pc = "adjusted"
    /\ \E e \in DOMAIN events_dict : events_dict[e] = None
    /\ \E e \in DOMAIN events_dict : events_dict[e] # None /\ adjusted_dict[e] # events_dict[e]

\* C10: every non-null returned timestamp is its input shifted by -1, 0 or
\* +1 day, the time of day unchanged
C10_ShiftAtMostOneDay ==
    pc = "adjusted" =>
        \A e \in DOMAIN events_dict :
            events_dict[e] # None =>
                \E k \in {-1, 0, 1} :
                    adjusted_dict[e] = [events_dict[e] EXCEPT !.day = events_dict[e].day + k]

\* a flight with one event moved back and another moved forward
C10_Witness ==
    /\ pc = "adjusted"
    /\ \E e \in DOMAIN events_dict :
          events_dict[e] # None /\ adjusted_dict[e].day = events_dict[e].day - 1
    /\ \E e \in DOMAIN events_dict :
          events_dict[e] # None /\ adjusted_dict[e].day = events_dict[e].day + 1

\* flight i of the cohort has a reference date and a value for the event
\* that is present and parses
Contributes(i, event) ==
    /\ flight_data[i].flight_date # None
    /\ Truthy(flight_data[i].times[event])
    /\ convert_time_string_to_datetime(flight_data[i].flight_date,
                                       flight_data[i].times[event]) # None

Contributors(event) == {i \in 1..Len(flight_data) : Contributes(i, event)}

\* C11: the keys of the averaged mapping are exactly the events for which at
\* least one flight contributed a valid sample; no key is null-filled and no
\* name outside the nine events (customs_out) is a key
C11_KeysAreSampledEvents ==
    pc = "averaged" =>
        /\ DOMAIN average_times = {e \in EventNames : Contributors(e) # {}}
        /\ \A e \in DOMAIN average_times : average_times[e] # None
        /\ "customs_out" \notin DOMAIN average_times

\* one event is averaged, another is reported by a flight but has no valid
\* sample and is left out
C11_Witness ==
    /\ pc = "averaged"
    /\ DOMAIN average_times # {}
    /\ \E e \in EventNames \ DOMAIN average_times :
          \E i \in 1..Len(flight_data) : Truthy(flight_data[i].times[e])

\* the k-th of a set of flight indices, in cohort order
Nth(indices, k) == CHOOSE i \in indices : Cardinality({j \in indices : j <= i}) = k

\* C12: the samples of an event are exactly the values of the flights that
\* have a reference date and a present, parseable value for that event; a
\* flight without a date contributes nothing, an unparseable value removes
\* only that sample
C12_SamplesAreValidPairs ==
    pc \in {"collected", "averaged"} =>
        \A e \in EventNames :
            LET from == Contributors(e)
            IN  /\ Len(event_times[e]) = Cardinality(from)
                /\ \A k \in 1..Len(event_times[e]) :
                      LET flight == flight_data[Nth(from, k)]
                      IN  event_times[e][k] =
                              convert_time_string_to_datetime(flight.flight_date, flight.times[e])

\* a flight without a date, and a flight with one unparseable value whose
\* other event still contributes
C12_Witness ==
    /\ pc = "collected"
    /\ \E i \in 1..Len(flight_data) :
          flight_data[i].flight_date = None /\ Truthy(flight_data[i].times["groomers_in"])
    /\ \E i \in 1..Len(flight_data) : \E e, f \in EventNames :
          /\ flight_data[i].flight_date # None
          /\ Truthy(flight_data[i].times[e]) /\ ~Contributes(i, e)
          /\ Contributes(i, f)

\* the characters of a time HH:MM or HH:MM:SS with every field in range
IsClockString(cs) ==
    /\ Len(cs) \in {5, 8}
    /\ \A i \in {1, 2, 4, 5} : IsDigit(cs[i])
    /\ cs[3] = ":"
    /\ 10 * DigitVal(cs[1]) + DigitVal(cs[2]) <= 23
    /\ 10 * DigitVal(cs[4]) + DigitVal(cs[5]) <= 59
    /\ Len(cs) = 8 =>
          /\ cs[6] = ":"
          /\ IsDigit(cs[7]) /\ IsDigit(cs[8])
          /\ 10 * DigitVal(cs[7]) + DigitVal(cs[8]) <= 59

\* a time-of-day object, an HH:MM string or an HH:MM:SS string
IsValidTimeValue(v) == v.kind = "time" \/ (v.kind = "str" /\ IsClockString(v.chars))

\* C13: every reference-date representation (ISO string, date object)
\* combined with every valid time representation converts to a timestamp
C13_AllRepresentationsConvert ==
    (pc = "converted" /\ IsValidTimeValue(conv.time_obj)) => conv.result # None

\* C14: a null value, the empty string and a string that is not a valid
\* HH:MM[:SS] time convert to null
C14_InvalidGivesNull ==
    (pc = "converted" /\ ~IsValidTimeValue(conv.time_obj)) => conv.result = None

\* C15: a string HH:MM or HH:MM:SS converts to the timestamp on the
\* reference date at hour HH, minute MM and second 0
C15_ClockStringConverts ==
    (pc = "converted" /\ conv.time_obj.kind = "str" /\ IsClockString(conv.time_obj.chars)) =>
        LET cs == conv.time_obj.chars
        IN  conv.result = DT(conv.date_str.day,
                             10 * DigitVal(cs[1]) + DigitVal(cs[2]),
                             10 * DigitVal(cs[4]) + DigitVal(cs[5]), 0)

\* an HH:MM:SS string with seconds, on a reference date given as a date object
C15_Witness ==
    /\ pc = "converted"
    /\ conv.time_obj.kind = "str"
    /\ IsClockString(conv.time_obj.chars)
    /\ Len(conv.time_obj.chars) = 8
    /\ conv.time_obj.chars[7] # "0"
    /\ conv.date_str.kind = "date"
    /\ conv.result # None

\* the insert of the given data into the named table, issued once
OneInsert ==
    sb.calls = <<[op |-> "table", arg |-> sb.table_name],
                 [op |-> "insert", arg |-> sb.data],
                 [op |-> "execute", arg |-> <<>>]>>

RaisedWriteError == sb.outcome.kind = "raised" /\ sb.outcome.type = "SupabaseWriteError"

Carries(text) == \E i \in 1..Len(sb.outcome.message) : sb.outcome.message[i] = text

\* C16: one insert and a normal return when the response has no error; a
\* SupabaseWriteError carrying the error text when the response has an error
\* or the client throws; a SupabaseWriteError and no insert when the client
\* is None
C16_SendOutcome ==
    pc = "sent" =>
        /\ (sb.client # None /\ sb.behaviour.kind \in {"ok", "no_error_attr"}) =>
              (OneInsert /\ sb.outcome = Returned)
        /\ (sb.client # None /\ sb.behaviour.kind \in {"error", "throws"}) =>
              (RaisedWriteError /\ Carries(sb.behaviour.text))
        /\ sb.client = None => (RaisedWriteError /\ sb.calls = <<>>)

\* the response carries an error and the insert was issued
C16_Witness ==
    /\ pc = "sent"
    /\ sb.client # None
    /\ sb.behaviour.kind = "error"
    /\ OneInsert
    /\ RaisedWriteError

SecondOfDay(dt) == dt.hour * 3600 + dt.minute * 60 + dt.second

\* early-phase events after 20:00, flight_secure before 04:00, ok_to_board
\* in between
SpansMidnight(d) ==
    /\ \E e \in SeqRange(early_events) : d[e] # None
    /\ \A e \in SeqRange(early_events) : d[e] # None => SecondOfDay(d[e]) > 20 * 3600
    /\ d["flight_secure"] # None /\ SecondOfDay(d["flight_secure"]) < 4 * 3600
    /\ d["ok_to_board"] # None
    /\ \/ SecondOfDay(d["ok_to_board"]) > 20 * 3600
       \/ SecondOfDay(d["ok_to_board"]) <= SecondOfDay(d["flight_secure"])

\* the time that passes from one clock time to the next occurrence of another
Elapsed(from, to) == (SecondOfDay(to) - SecondOfDay(from)) % 86400

\* C17: for a flight that spans midnight, the Boarding duration is the real
\* elapsed time from ok_to_board to flight_secure (30 minutes for 23:50 to
\* 00:20)
C17_BoardingElapsed ==
    (pc = "durations" /\ SpansMidnight(events_dict)) =>
        /\ "boarding" \in DOMAIN durations
        /\ durations["boarding"] = Elapsed(events_dict["ok_to_board"], events_dict["flight_secure"])

PresentOf(d, names) == {e \in SeqRange(names) : d[e] # None}

RECURSIVE MinuteTotal(_, _)
\* minutes of day of the events in names, added up
MinuteTotal(d, names) ==
    IF names = {} THEN 0
    ELSE LET e == CHOOSE x \in names : TRUE
         IN  SecondOfDay(d[e]) \div 60 + MinuteTotal(d, names \ {e})

\* both groups present, early mean above the late mean, early mean above
\* 1200 and late mean below 240 (means compared by cross-multiplication)
OvernightCondition(d) ==
    LET E == PresentOf(d, early_events)
        L == PresentOf(d, late_events)
    IN  /\ E # {} /\ L # {}
        /\ MinuteTotal(d, E) * Cardinality(L) > MinuteTotal(d, L) * Cardinality(E)
        /\ MinuteTotal(d, E) > 1200 * Cardinality(E)
        /\ MinuteTotal(d, L) < 240 * Cardinality(L)

\* C18: in an overnight flight every late-phase event with input hour < 12
\* is returned exactly one calendar day after every present early-phase event
C18_LateOneDayAfterEarly ==
    (pc = "adjusted" /\ OvernightCondition(events_dict)) =>
        \A l \in PresentOf(events_dict, late_events) :
            events_dict[l].hour < 12 =>
                \A e \in PresentOf(events_dict, early_events) :
                    adjusted_dict[l].day = adjusted_dict[e].day + 1

\* C19: a present event is shifted forward one day exactly when the flight
\* meets the overnight condition and the event is a late-phase event with
\* hour < 12; with either group empty nothing is shifted forward
C19_OvernightRule ==
    pc = "adjusted" =>
        \A e \in {x \in DOMAIN events_dict : events_dict[x] # None} :
            (adjusted_dict[e] = AddDays(events_dict[e], 1)) <=>
                /\ OvernightCondition(events_dict)
                /\ e \in SeqRange(late_events)
                /\ events_dict[e].hour < 12

\* an overnight flight with one late-phase event moved forward and another,
\* at noon or later, not moved forward
C19_Witness ==
    /\ pc = "adjusted"
    /\ OvernightCondition(events_dict)
    /\ \E e \in PresentOf(events_dict, late_events) :
           adjusted_dict[e] = AddDays(events_dict[e], 1)
    /\ \E e \in PresentOf(events_dict, late_events) :
           events_dict[e].hour >= 12 /\ adjusted_dict[e] # AddDays(events_dict[e], 1)

\* seconds from the earliest present input timestamp to the input of event
GapFromEarliest(d, event) ==
    LET earliest == CHOOSE t \in PresentTimes(d) :
                        \A u \in PresentTimes(d) : TotalSeconds(t) <= TotalSeconds(u)
    IN  TotalSeconds(d[event]) - TotalSeconds(earliest)

ShiftedByRuleOne(d, event) ==
    OvernightCondition(d) /\ event \in SeqRange(late_events) /\ d[event].hour < 12

\* C20: an event rule 1 did not shift is returned one day earlier when it is
\* more than 12 hours after the earliest input, one day later when more than
\* 12 hours before it, and unchanged otherwise, exactly 12 hours included
C20_GapRule ==
    pc = "adjusted" =>
        \A e \in {x \in DOMAIN events_dict : events_dict[x] # None} :
            ~ShiftedByRuleOne(events_dict, e) =>
                adjusted_dict[e] =
                    IF GapFromEarliest(events_dict, e) > 12 * 3600
                    THEN AddDays(events_dict[e], -1)
                    ELSE IF GapFromEarliest(events_dict, e) < -(12 * 3600)
                    THEN AddDays(events_dict[e], 1)
                    ELSE events_dict[e]

\* one event exactly 12 hours after the earliest stays, another more than 12
\* hours after it goes back one day
C20_Witness ==
    /\ pc = "adjusted"
    /\ \E e \in DOMAIN events_dict :
           /\ events_dict[e] # None
           /\ GapFromEarliest(events_dict, e) = 12 * 3600
           /\ adjusted_dict[e] = events_dict[e]
    /\ \E e \in DOMAIN events_dict :
           /\ events_dict[e] # None
           /\ ~ShiftedByRuleOne(events_dict, e)
           /\ GapFromEarliest(events_dict, e) > 12 * 3600
           /\ adjusted_dict[e] = AddDays(events_dict[e], -1)

RECURSIVE ClockSecondsTotal(_)
\* the samples' clock seconds since midnight, added up
ClockSecondsTotal(samples) ==
    IF samples = <<>> THEN 0
    ELSE SecondOfDay(Head(samples)) + ClockSecondsTotal(Tail(samples))

\* hour, minute and second of the truncated mean of the samples' clocks
RawClockMean(samples) ==
    LET mean == ClockSecondsTotal(samples) \div Len(samples)
    IN  <<mean \div 3600, (mean % 3600) \div 60, mean % 60>>

Redated(flights) ==
    { [i \in 1..Len(flights) |->
          IF flights[i].flight_date = None THEN flights[i]
          ELSE [flights[i] EXCEPT !.flight_date = IsoDate(f[i])]]
      : f \in [1..Len(flights) -> Days] }

Averages(flights) ==
    AverageOver([e \in EventNames |-> CollectTimes(flights, e, Len(flights))])

SameClockAverages(a, b) ==
    /\ DOMAIN a = DOMAIN b
    /\ \A e \in DOMAIN a : TimeOfDay(a[e]) = TimeOfDay(b[e])

EventOrder(chart) == [i \in 1..Len(chart.rows) |-> chart.rows[i].Event]

BarDurations(chart) == [i \in 1..Len(chart.rows) |-> chart.rows[i].Duration]

SameOrderAndDurations(a, b) ==
    /\ a.fig = b.fig
    /\ EventOrder(a) = EventOrder(b)
    /\ BarDurations(a) = BarDurations(b)

\* C22: two cohorts with the same averaged time of day per event, differing
\* in flight dates, get the same event order and the same bar durations in
\* the Gantt chart and in the cascade chart
C22_AnchorDateIgnored ==
    (pc = "cascade" /\ gantt_data.fig) =>
        \A other \in Redated(flight_data) :
            SameClockAverages(Averages(other), Averages(flight_data)) =>
                /\ SameOrderAndDurations(MultiFlightChart(other, "gantt"), gantt_data)
                /\ SameOrderAndDurations(MultiFlightChart(other, "cascade"), cascade_bars)

\* C23: the average of an event carries the calendar date of the earliest
\* timestamp collected for the event, and a valid time of day that is the
\* hour, minute and second of the mean seconds since midnight
C23_AnchorAndClock ==
    pc = "averaged" =>
        \A e \in DOMAIN average_times :
            LET samples == event_times[e]
                avg == average_times[e]
            IN  /\ \E i \in 1..Len(samples) :
                       /\ \A j \in 1..Len(samples) :
                              TotalSeconds(samples[i]) <= TotalSeconds(samples[j])
                       /\ avg.day = samples[i].day
                /\ avg.hour \in 0..23 /\ avg.minute \in 0..59 /\ avg.second \in 0..59
                /\ avg.hour * 3600 + avg.minute * 60 + avg.second
                       = ClockSecondsTotal(samples) \div Len(samples)

\* the samples of an event lie on different dates and the first collected is
\* not the earliest
C23_Witness ==
    /\ pc = "averaged"
    /\ \E e \in DOMAIN average_times :
           /\ Len(event_times[e]) >= 2
           /\ event_times[e][1].day > average_times[e].day

\* C24: a returned timestamp is later than its input only for an event the
\* overnight rule shifted; no event is more than 12 hours before the
\* earliest input, and in a flight that is not overnight no returned
\* timestamp is later than its input
C24_NoForwardGapShift ==
    pc = "adjusted" =>
        \A e \in {x \in DOMAIN events_dict : events_dict[x] # None} :
            /\ GapFromEarliest(events_dict, e) >= -(12 * 3600)
            /\ TotalSeconds(adjusted_dict[e]) > TotalSeconds(events_dict[e]) =>
                   ShiftedByRuleOne(events_dict, e)
            /\ ~OvernightCondition(events_dict) =>
                   TotalSeconds(adjusted_dict[e]) <= TotalSeconds(events_dict[e])

\* a flight that is not overnight: the gap rule moved an event back one day
\* and left a late-phase event with hour < 12 where it was
C24_Witness ==
    /\ pc = "adjusted"
    /\ ~OvernightCondition(events_dict)
    /\ \E e \in DOMAIN events_dict :
           events_dict[e] # None /\ adjusted_dict[e] = AddDays(events_dict[e], -1)
    /\ \E e \in PresentOf(events_dict, late_events) :
           events_dict[e].hour < 12 /\ adjusted_dict[e] = events_dict[e]

\* C25: in app.py, a click on "Enviar y Finalizar" whose send completes
\* without raising sets data_submitted and shows the success message and the
\* copy button, and no error message
C25_SendRecordsSuccess ==
    (pc = "sent" /\ sb.last.outcome = Returned) =>
        /\ "data_submitted" \in DOMAIN session_state
        /\ session_state["data_submitted"] = TRUE
        /\ "success" \in DOMAIN rendered
        /\ "copy_button" \in DOMAIN rendered
        /\ "error" \notin DOMAIN rendered

\* the data of the report under review is a row the client has inserted
ReviewedReportSent == session_state["form_data"].data_for_database \in sb.rows

\* C26: in render_data_entry_tab the copy button is shown only for a report
\* whose data has been sent successfully, a newly reviewed form that has not
\* been sent shows the warning and no copy button, and data_submitted is
\* never set without a successful send
C26_CopyOnlyAfterSend ==
    /\ "copy_button" \in DOMAIN rendered => ReviewedReportSent
    /\ (pc = "reviewed" /\ ~ReviewedReportSent) =>
           "warning" \in DOMAIN rendered /\ "copy_button" \notin DOMAIN rendered
    /\ "data_submitted" \in DOMAIN session_state => sb.rows # {}

Failed(request) == ~Succeeds(request.outcome)

DataOf(request) == Json(request.flight, request.date, request.outcome)

ReadFresh == call.cached # None /\ call.now - call.cached.timestamp < 15 * 60

\* C28: every cache entry holds the data of a 200 response for its key and
\* the time of the call that fetched it; a call issues no request and returns
\* the cached data exactly when the entry of its key is younger than 15
\* minutes; a call that fails leaves the cache as it was, an expired entry
\* included, and a call that succeeds after a miss stores its data
C28_CacheEntries ==
    /\ \A k \in DOMAIN cache :
           /\ cache[k].data.flight = k.flight
           /\ cache[k].data.date = k.date
           /\ cache[k].data.version \in 1..2
           /\ cache[k].timestamp <= clock
    /\ pc = "fetched" =>
           LET k == call.cache_key
           IN  /\ call.requests = <<>> <=> ReadFresh
               /\ ReadFresh => call.result = call.cached.data /\ cache[k] = call.cached
               /\ (~ReadFresh /\ call.result = None) =>
                      IF call.cached = None THEN k \notin DOMAIN cache
                      ELSE cache[k] = call.cached
               /\ (~ReadFresh /\ call.result # None) =>
                      cache[k] = [data |-> call.result, timestamp |-> call.now]

\* an entry that had expired was replaced by the data of a new response
C28_Witness ==
    /\ pc = "fetched"
    /\ call.cached # None
    /\ call.now - call.cached.timestamp = 15 * 60
    /\ call.result # None
    /\ cache[call.cache_key].timestamp = call.now
    /\ cache[call.cache_key].data # call.cached.data

\* C29: the averager of event_processing.py and the averager of
\* timeline_chart.py return the same mapping for every cohort, dates included
C29_SameAverages ==
    pc = "timeline_averaged" => timeline_average_times = average_times

\* an event for which the two implementations pull back different samples
C29_Witness ==
    /\ pc = "timeline_averaged"
    /\ \E e \in DOMAIN average_times :
           LET sorted_times == sorted(event_times[e])
           IN  /\ HasGap(sorted_times)
               /\ temp_adjusted_times(sorted_times, Len(sorted_times))
                      # adjusted_times(sorted_times)

\* the cohort with the flights at i and i + 1 exchanged
Exchanged(flights, i) ==
    [j \in 1..Len(flights) |->
        IF j = i THEN flights[i + 1] ELSE IF j = i + 1 THEN flights[i] ELSE flights[j]]

\* C30: the averages do not depend on the order of the flight records.
\* Every permutation is a product of exchanges of neighbours, and with a
\* cohort the model holds every reordering of it.
C30_OrderIndependent ==
    pc = "averaged" =>
        \A i \in 1..(Len(flight_data) - 1) :
            Averages(Exchanged(flight_data, i)) = average_times

\* two neighbouring flights on different dates, the later first, both with
\* a sample of one event
C30_Witness ==
    /\ pc = "averaged"
    /\ \E i \in 1..(Len(flight_data) - 1), e \in DOMAIN average_times :
           /\ Contributes(i, e) /\ Contributes(i + 1, e)
           /\ flight_data[i].flight_date.day > flight_data[i + 1].flight_date.day

====
